---------------------------- MODULE Spec2Model ----------------------------
(***************************************************************************)
(* A model of xmltrace's test execution engine: TestRunner (test_runner.py) *)
(* driving HTTPClient (http_client.py), XMLParser (xml_parser.py) and       *)
(* StatsCollector (stats_collector.py).                                     *)
(*                                                                          *)
(* Text is a sequence of one-character strings, so that scanning,           *)
(* splitting and substitution are computed as the code computes them.       *)
(* A Python value that may be None is a sequence of length 0 (None) or 1.   *)
(* A dict is a function; {} is the function with the empty domain.          *)
(***************************************************************************)
EXTENDS Integers, Sequences, FiniteSets, TLC

(***************************************************************************)
(* Bounds of the model.                                                     *)
(***************************************************************************)
\* the longest definition sequence a configuration holds
MaxTests == 2
\* how many times run_tests is called on one runner
MaxRuns == 2
\* the longest template, in pieces (a character or a placeholder)
MaxPieces == 4

(***************************************************************************)
(* Python values.                                                           *)
(***************************************************************************)
None == <<>>
Some(v) == <<v>>
Get(o) == o[1]
EmptyMap == <<>>

\* a str value and an int value (YAML gives either for a parameter)
StrVal(t) == [t |-> "str", s |-> t, n |-> 0]
IntVal(k) == [t |-> "int", s |-> <<>>, n |-> k]

Digit(d) == <<"0", "1", "2", "3", "4", "5", "6", "7", "8", "9">>[d + 1]

RECURSIVE Decimal(_)
Decimal(k) == IF k < 10 THEN <<Digit(k)>> ELSE Decimal(k \div 10) \o <<Digit(k % 10)>>

\* str(value)
Str(v) == IF v.t = "int" THEN Decimal(v.n) ELSE v.s

\* {**a, **b} and a.update(b): b wins on a key of both
Overlay(a, b) == [k \in DOMAIN a \cup DOMAIN b |-> IF k \in DOMAIN b THEN b[k] ELSE a[k]]

\* TruthyText, as "is not None"
TruthyText_not_none(o) == o # None

\* truth value of an optional text, an optional int and an optional dict
TruthyText(o) == o # None /\ Get(o) # <<>>
TruthyInt(o) == o # None /\ Get(o) # 0
TruthyDict(o) == o # None /\ DOMAIN Get(o) # {}

(***************************************************************************)
(* Text.                                                                    *)
(***************************************************************************)
\* the characters \w matches, among those the model uses
WordChars == {"a", "b", "c", "i", "j", "k", "p", "x", "z", "_",
              "0", "1", "2", "3", "4", "5", "6", "7", "8", "9"}

Slice(t, from, to) == [n \in 1..(to - from + 1) |-> t[from + n - 1]]
Drop(t, k) == Slice(t, k + 1, Len(t))

\* whether text p occurs in t at position n
OccursAt(p, t, n) == n + Len(p) - 1 <= Len(t) /\ \A m \in 1..Len(p) : t[n + m - 1] = p[m]

\* the first position at or after n where p occurs in t, 0 if none
RECURSIVE IndexFrom(_, _, _)
IndexFrom(p, t, n) ==
    IF n + Len(p) - 1 > Len(t) THEN 0
    ELSE IF OccursAt(p, t, n) THEN n ELSE IndexFrom(p, t, n + 1)

\* sub in text
Contains(t, p) == IndexFrom(p, t, 1) # 0

\* text.replace(old, new): leftmost occurrences, not overlapping
RECURSIVE Replace(_, _, _)
Replace(t, old, new) ==
    LET n == IndexFrom(old, t, 1)
    IN IF n = 0 THEN t
       ELSE Slice(t, 1, n - 1) \o new \o Replace(Drop(t, n + Len(old) - 1), old, new)

\* the end of the run of word characters of t that starts at n (n - 1 if empty)
RECURSIVE WordEnd(_, _)
WordEnd(t, n) == IF n <= Len(t) /\ t[n] \in WordChars THEN WordEnd(t, n + 1) ELSE n - 1

(***************************************************************************)
(* TestRunner._substitute_variables: re.sub(r'\{(\w+)\}', replace_match, t) *)
(***************************************************************************)
\* whether \{(\w+)\} matches t at n; then the match ends at WordEnd(t, n + 1) + 1
PlaceholderAt(t, n) ==
    /\ t[n] = "{"
    /\ WordEnd(t, n + 1) >= n + 1
    /\ WordEnd(t, n + 1) + 1 <= Len(t)
    /\ t[WordEnd(t, n + 1) + 1] = "}"

\* replace_match, with the placeholder of an absent key removed
replace_match_absent_removed(t, n, variables) ==
    LET e == WordEnd(t, n + 1)
        key == Slice(t, n + 1, e)
    IN IF key \in DOMAIN variables THEN Str(variables[key]) ELSE <<>>

\* replace_match: the value of the key, stringified, or the match itself
replace_match(t, n, variables) ==
    LET e == WordEnd(t, n + 1)
        key == Slice(t, n + 1, e)
    IN IF key \in DOMAIN variables THEN Str(variables[key]) ELSE Slice(t, n, e + 1)

\* re.sub scans left to right from n and never rescans what it has put in
RECURSIVE ReSub(_, _, _)

\* ReSub, with the text put in scanned again
ReSub_rescanning(t, n, variables) ==
    IF n > Len(t) THEN <<>>
    ELSE IF PlaceholderAt(t, n)
         THEN IF Slice(t, n + 1, WordEnd(t, n + 1)) \in DOMAIN variables
              THEN ReSub(replace_match(t, n, variables) \o Drop(t, WordEnd(t, n + 1) + 1),
                         1, variables)
              ELSE replace_match(t, n, variables)
                       \o ReSub(t, WordEnd(t, n + 1) + 2, variables)
         ELSE <<t[n]>> \o ReSub(t, n + 1, variables)

\* ReSub, with an opening brace that starts no placeholder left out
ReSub_without_stray_brace(t, n, variables) ==
    IF n > Len(t) THEN <<>>
    ELSE IF PlaceholderAt(t, n)
         THEN replace_match(t, n, variables) \o ReSub(t, WordEnd(t, n + 1) + 2, variables)
         ELSE (IF t[n] = "{" THEN <<>> ELSE <<t[n]>>) \o ReSub(t, n + 1, variables)

ReSub(t, n, variables) ==
    IF n > Len(t) THEN <<>>
    ELSE IF PlaceholderAt(t, n)
         THEN replace_match(t, n, variables) \o ReSub(t, WordEnd(t, n + 1) + 2, variables)
         ELSE <<t[n]>> \o ReSub(t, n + 1, variables)

\* text is an optional template: None (not a str) passes through
substitute_variables(text, variables) ==
    IF text = None THEN None ELSE Some(ReSub(Get(text), 1, variables))

(***************************************************************************)
(* StatsCollector.                                                          *)
(***************************************************************************)
\* StatsCollector.__init__
NewStats == [total_tests |-> 0, passed_tests |-> 0, failed_tests |-> 0,
             skipped_tests |-> 0, test_results |-> <<>>]

\* the result entry (timestamp and response time are not modelled)
Result(test_name, status, details, error_message) ==
    [test_name |-> test_name, status |-> status, details |-> details,
     error_message |-> error_message]

\* Tally, with ERROR left out of every tally
Tally_error_untallied(status) ==
    CASE status = "PASS" -> "passed_tests"
      [] status = "FAIL" -> "failed_tests"
      [] status = "SKIP" -> "skipped_tests"
      [] OTHER -> "none"

\* the tally a status is counted under: ERROR counts as a failure
Tally(status) ==
    CASE status = "PASS" -> "passed_tests"
      [] status = "FAIL" -> "failed_tests"
      [] status = "SKIP" -> "skipped_tests"
      [] status = "ERROR" -> "failed_tests"
      [] OTHER -> "none"

\* StatsCollector.record_test_result
record_test_result(st, test_name, status, details, error_message) ==
    LET counted == [st EXCEPT !.total_tests = @ + 1]
        tallied == IF Tally(status) = "none" THEN counted
                   ELSE [counted EXCEPT ![Tally(status)] = @ + 1]
    IN [tallied EXCEPT
          !.test_results = Append(@, Result(test_name, status, details, error_message))]

\* StatsCollector.get_summary: the pass rate is passed/total in percent (here in
\* whole percent), N/A of no test
get_summary(st) ==
    [total |-> st.total_tests, passed |-> st.passed_tests, failed |-> st.failed_tests,
     skipped |-> st.skipped_tests,
     pass_rate |-> IF st.total_tests > 0
                   THEN Some((st.passed_tests * 100) \div st.total_tests) ELSE None]

(***************************************************************************)
(* HTTPClient.                                                              *)
(***************************************************************************)
\* what requests.request does: it returns a response or raises an exception
\* that is an instance of the classes named
Response(code, headers, content) ==
    [kind |-> "response", status_code |-> code, headers |-> headers, content |-> content,
     classes |-> {}, reason |-> <<>>]
Raises(classes, reason) ==
    [kind |-> "exception", status_code |-> 0, headers |-> EmptyMap, content |-> <<>>,
     classes |-> classes, reason |-> reason]

\* a RequestOutcome dict; raised: the exception left send_request
Outcome(status_code, headers, content, success, error) ==
    [raised |-> FALSE, status_code |-> status_code, headers |-> headers,
     content |-> content, success |-> success, error |-> error]
Uncaught == [raised |-> TRUE, status_code |-> None, headers |-> EmptyMap,
             content |-> <<>>, success |-> FALSE, error |-> None]

\* send_request, with the connection failure tried before the timeout
send_request_connection_first(r) ==
    IF r.kind = "response"
    THEN Outcome(Some(r.status_code), r.headers, r.content, TRUE, None)
    ELSE IF "ConnectionError" \in r.classes
    THEN Outcome(None, EmptyMap, <<"Connection Error">>, FALSE, Some(<<"ConnectionError">>))
    ELSE IF "Timeout" \in r.classes
    THEN Outcome(None, EmptyMap, <<"Request Timed Out">>, FALSE, Some(<<"Timeout">>))
    ELSE IF "RequestException" \in r.classes
    THEN Outcome(None, EmptyMap, <<"An unexpected request error occurred: ">> \o r.reason,
                 FALSE, Some(r.reason))
    ELSE Uncaught

\* HTTPClient.send_request, from what the transport call did: the except
\* clauses are tried in order
send_request(r) ==
    IF r.kind = "response"
    THEN Outcome(Some(r.status_code), r.headers, r.content, TRUE, None)
    ELSE IF "Timeout" \in r.classes
    THEN Outcome(None, EmptyMap, <<"Request Timed Out">>, FALSE, Some(<<"Timeout">>))
    ELSE IF "ConnectionError" \in r.classes
    THEN Outcome(None, EmptyMap, <<"Connection Error">>, FALSE, Some(<<"ConnectionError">>))
    ELSE IF "RequestException" \in r.classes
    THEN Outcome(None, EmptyMap, <<"An unexpected request error occurred: ">> \o r.reason,
                 FALSE, Some(r.reason))
    ELSE Uncaught

\* HTTPClient._build_url
build_url(base_url, path) == base_url \o path

(***************************************************************************)
(* XMLParser.  A tree is a sequence of elements, each with its tag, its     *)
(* attributes and the index of its parent (0: the document itself), in      *)
(* document order.                                                          *)
(***************************************************************************)
Element(tag, attrs, parent) == [tag |-> tag, attrs |-> attrs, parent |-> parent]

\* the response bodies of the model
BodyEmpty == <<>>
BodyDoc == <<"<", "a", " ", "i", "=", "\"", "1", "\"", ">", "<", "b", "/", ">",
             "<", "/", "a", ">">>
BodyText == <<"x">>

XmlDeclaration == "<?xml version=\"1.0\" encoding=\"utf-8\"?>"

\* BeautifulSoup(xml_content, 'xml') on the bodies above: text that is no
\* markup parses to a document without elements
BeautifulSoup(xml_content) ==
    IF xml_content = BodyDoc
    THEN <<Element(<<"a">>, <<"i">> :> <<"1">>, 0), Element(<<"b">>, EmptyMap, 1)>>
    ELSE <<>>

\* soup.prettify() of the trees above: the declaration, then a line per tag
prettify(soup) ==
    IF soup = BeautifulSoup(BodyDoc)
    THEN <<XmlDeclaration, "\n", "<", "a", " ", "i", "=", "\"", "1", "\"", ">", "\n",
           " ", "<", "b", "/", ">", "\n", "<", "/", "a", ">", "\n">>
    ELSE <<XmlDeclaration>>

\* XMLParser.__init__: soup is None of an empty content and when the parser
\* raised (parser_raised), else the tree
XMLParser(xml_content, parser_raised) ==
    IF xml_content = <<>> \/ parser_raised THEN None ELSE Some(BeautifulSoup(xml_content))

\* soup.find_all(tag_name, attrs): the elements of that name with each
\* attribute of attrs equal to the value asked for
find_all(tree, tag_name, attrs) ==
    {e \in 1..Len(tree) :
        /\ tree[e].tag = tag_name
        /\ \A a \in DOMAIN attrs :
              a \in DOMAIN tree[e].attrs /\ tree[e].attrs[a] = attrs[a]}

\* XMLParser.find(tag_name) is not None
find(soup, tag_name) == soup # None /\ find_all(Get(soup), tag_name, EmptyMap) # {}

\* text.split(sep): the parts between the occurrences of the character sep
RECURSIVE Split(_, _)
Split(t, sep) ==
    LET n == IndexFrom(<<sep>>, t, 1)
    IN IF n = 0 THEN <<t>> ELSE <<Slice(t, 1, n - 1)>> \o Split(Drop(t, n), sep)

\* text.split(sep, 1)
Split1(t, sep) ==
    LET n == IndexFrom(<<sep>>, t, 1)
    IN IF n = 0 THEN <<t>> ELSE <<Slice(t, 1, n - 1), Drop(t, n)>>

\* text.strip(chars), chars a set of characters
RECURSIVE LStrip(_, _)
LStrip(t, chars) == IF t # <<>> /\ t[1] \in chars THEN LStrip(Drop(t, 1), chars) ELSE t
RECURSIVE RStrip(_, _)
RStrip(t, chars) ==
    IF t # <<>> /\ t[Len(t)] \in chars THEN RStrip(Slice(t, 1, Len(t) - 1), chars) ELSE t
Strip(t, chars) == RStrip(LStrip(t, chars), chars)

IsWord(t) == t # <<>> /\ \A n \in 1..Len(t) : t[n] \in WordChars

(***************************************************************************)
(* soup.select(css_selector), for the selectors made of compounds           *)
(* tag or tag[attr], joined by white space (descendant) or > (child).       *)
(* Any other selector is a syntax error, which select raises.               *)
(***************************************************************************)
NonEmpty(t) == t # <<>>
IsCombinator(tok) == tok = <<">">>
IsCompound(tok) == ~IsCombinator(tok)

SelectorTokens(css) == SelectSeq(Split(Replace(css, <<">">>, <<" ", ">", " ">>), " "), NonEmpty)

\* tag, or tag[attr] (the attribute is present)
CompoundOk(tok) ==
    \/ IsWord(tok)
    \/ /\ Contains(tok, <<"[">>)
       /\ tok[Len(tok)] = "]"
       /\ IsWord(Split1(tok, "[")[1])
       /\ IsWord(Slice(Split1(tok, "[")[2], 1, Len(Split1(tok, "[")[2]) - 1))

CompoundTag(tok) == Split1(tok, "[")[1]
CompoundAttrs(tok) ==
    IF IsWord(tok) THEN {} ELSE {Slice(Split1(tok, "[")[2], 1, Len(Split1(tok, "[")[2]) - 1)}

SelectorOk(toks) ==
    /\ toks # <<>>
    /\ IsCompound(toks[1])
    /\ IsCompound(toks[Len(toks)])
    /\ \A n \in 1..(Len(toks) - 1) : IsCombinator(toks[n]) => IsCompound(toks[n + 1])
    /\ \A n \in 1..Len(toks) : IsCompound(toks[n]) => CompoundOk(toks[n])

CompoundMatches(tree, e, tok) ==
    /\ tree[e].tag = CompoundTag(tok)
    /\ \A a \in CompoundAttrs(tok) : a \in DOMAIN tree[e].attrs

RECURSIVE Ancestors(_, _)
Ancestors(tree, e) ==
    IF tree[e].parent = 0 THEN {} ELSE {tree[e].parent} \cup Ancestors(tree, tree[e].parent)

\* whether element e matches the selector that ends with token n of toks
RECURSIVE SelectorMatches(_, _, _, _)
SelectorMatches(tree, e, toks, n) ==
    /\ CompoundMatches(tree, e, toks[n])
    /\ \/ n = 1
       \/ /\ n > 2
          /\ IsCombinator(toks[n - 1])
          /\ tree[e].parent # 0
          /\ SelectorMatches(tree, tree[e].parent, toks, n - 2)
       \/ /\ n > 1
          /\ IsCompound(toks[n - 1])
          /\ \E a \in Ancestors(tree, e) : SelectorMatches(tree, a, toks, n - 1)

\* select: raised on a syntax error, else the elements found
select(tree, css) ==
    LET toks == SelectorTokens(css)
    IN IF ~SelectorOk(toks) THEN [raised |-> TRUE, found |-> {}]
       ELSE [raised |-> FALSE,
             found |-> {e \in 1..Len(tree) : SelectorMatches(tree, e, toks, Len(toks))}]

(***************************************************************************)
(* XMLParser.validate_xpath_like.                                           *)
(***************************************************************************)
\* the first strategy applies: both brackets, and split('=', 1) of what is
\* between them gives two parts (else the unpacking raises ValueError)
IsAttributeFilter(expr) ==
    /\ Contains(expr, <<"[">>)
    /\ Contains(expr, <<"]">>)
    /\ LET attr_part == Split1(expr, "[")[2]
       IN Contains(Slice(attr_part, 1, Len(attr_part) - 1), <<"=">>)

AttributeFilter(tree, expr) ==
    LET tag_name == Split1(expr, "[")[1]
        attr_part == Split1(expr, "[")[2]
        pair == Split1(Slice(attr_part, 1, Len(attr_part) - 1), "=")
        attr_name == pair[1]
        attr_value == Strip(pair[2], {"'", "\""})
    IN find_all(tree, tag_name, attr_name :> attr_value) # {}

CssSelector(expr) == Replace(Replace(expr, <<"/", "/">>, <<" ">>), <<"/">>, <<" ", ">", " ">>)

\* the last bare tag name of the expression
BareTag(expr) ==
    LET last == Split(expr, "/")[Len(Split(expr, "/"))]
    IN Strip(Split(last, "[")[1], {" "})

\* validate_xpath_like, with the bare tag looked for also when the selector
\* matched nothing
validate_xpath_like_fallback_on_no_match(soup, expr) ==
    IF soup = None THEN FALSE
    ELSE IF IsAttributeFilter(expr) THEN AttributeFilter(Get(soup), expr)
    ELSE IF ~select(Get(soup), CssSelector(expr)).raised
            /\ select(Get(soup), CssSelector(expr)).found # {}
         THEN TRUE
    ELSE find(soup, BareTag(expr))

\* validate_xpath_like, with a filter that finds nothing falling through
validate_xpath_like_falling_through(soup, expr) ==
    IF soup = None THEN FALSE
    ELSE IF IsAttributeFilter(expr) /\ AttributeFilter(Get(soup), expr) THEN TRUE
    ELSE IF ~select(Get(soup), CssSelector(expr)).raised
         THEN select(Get(soup), CssSelector(expr)).found # {}
    ELSE find(soup, BareTag(expr))

validate_xpath_like(soup, expr) ==
    IF soup = None THEN FALSE
    ELSE IF IsAttributeFilter(expr) THEN AttributeFilter(Get(soup), expr)
    ELSE IF ~select(Get(soup), CssSelector(expr)).raised
         THEN select(Get(soup), CssSelector(expr)).found # {}
    ELSE find(soup, BareTag(expr))

(***************************************************************************)
(* XMLParser.validate_content_regex, for the patterns made of literal       *)
(* characters, . and groups; re.search raises re.error on a pattern whose   *)
(* parentheses do not balance.                                              *)
(***************************************************************************)
RECURSIVE ParensBalance(_, _, _)
ParensBalance(p, n, depth) ==
    IF n > Len(p) THEN depth = 0
    ELSE IF p[n] = "(" THEN ParensBalance(p, n + 1, depth + 1)
    ELSE IF p[n] = ")" THEN depth > 0 /\ ParensBalance(p, n + 1, depth - 1)
    ELSE ParensBalance(p, n + 1, depth)

NotParen(c) == c \notin {"(", ")"}

\* re.search(pattern, text, re.DOTALL): . matches every character
re_search(pattern, text) ==
    LET p == SelectSeq(pattern, NotParen)
    IN \E n \in 1..(Len(text) - Len(p) + 1) :
          \A m \in 1..Len(p) : p[m] = "." \/ p[m] = text[n + m - 1]

\* validate_content_regex, with the pattern compiled before the tree is looked at
validate_content_regex_compiling_first(soup, regex_pattern) ==
    IF ~ParensBalance(regex_pattern, 1, 0) THEN [raised |-> TRUE, value |-> FALSE]
    ELSE IF soup = None \/ prettify(Get(soup)) = <<>> THEN [raised |-> FALSE, value |-> FALSE]
    ELSE [raised |-> FALSE, value |-> re_search(regex_pattern, prettify(Get(soup)))]

\* raised: re.error left the validator
validate_content_regex(soup, regex_pattern) ==
    IF soup = None \/ prettify(Get(soup)) = <<>> THEN [raised |-> FALSE, value |-> FALSE]
    ELSE IF ~ParensBalance(regex_pattern, 1, 0) THEN [raised |-> TRUE, value |-> FALSE]
    ELSE [raised |-> FALSE, value |-> re_search(regex_pattern, prettify(Get(soup)))]

(***************************************************************************)
(* The configurations, run arguments and servers of the model.              *)
(***************************************************************************)
TestCase(name, method, path, expected_status, body, headers, params, xpath, regex) ==
    [name |-> name, method |-> method, path |-> path, expected_status |-> expected_status,
     body |-> body, headers |-> headers, params |-> params,
     validation_xpath |-> xpath, validation_regex |-> regex]

\* the test-case definitions a configuration is drawn from
TestPool == <<
    \* a plain GET with an expected status and a bare-tag query
    TestCase(Some("A"), None, Some(<<"/", "a">>), Some(200), None, None, None,
             Some(<<"b">>), None),
    \* an attribute filter that matches and a pattern that does not compile
    TestCase(Some("D"), Some("get"), Some(<<"/", "a">>), None, None, None, None,
             Some(<<"a", "[", "i", "=", "'", "1", "'", "]">>), Some(<<"(">>)),
    \* placeholders in the path, the body and a header; default parameters
    TestCase(Some("B"), Some("post"), Some(<<"/", "p", "/", "{", "k", "}">>), None,
             Some(<<"{", "j", "}", "{", "c", "}">>),
             Some(<<"h">> :> <<"{", "k", "}">>),
             Some(<<"k">> :> IntVal(12) @@ <<"c">> :> StrVal(<<"x">>)),
             None, Some(<<"<", "b">>)),
    \* an empty path
    TestCase(Some("E"), None, Some(<<>>), None, None, None, None, None, None),
    \* no path
    TestCase(Some("C"), None, None, Some(200), None, None, None, Some(<<"b">>), None),
    \* no name; a filter that finds nothing although the tag is there, and a
    \* pattern that matches the document only
    TestCase(None, None, Some(<<"/", "a">>), Some(200), None, None, None,
             Some(<<"a", "[", "i", "=", "2", "]">>), Some(<<"b", "/">>)),
    \* a filter that matches, its value in double quotes
    TestCase(Some("F"), None, Some(<<"/", "a">>), None, None, None, None,
             Some(<<"a", "[", "i", "=", "\"", "1", "\"", "]">>), None),
    \* nothing to validate
    TestCase(Some("G"), None, Some(<<"/", "a">>), Some(200), None, None, None,
             None, None) >>

\* the definition sequences: n consecutive definitions of the pool from s on
Window(s, n) == [j \in 1..n |-> TestPool[((s + j - 2) % Len(TestPool)) + 1]]
Configs == {Window(s, n) : s \in 1..Len(TestPool), n \in 0..MaxTests}

BaseUrl == <<"h", "t", "t", "p", ":", "/", "/", "s">>
BaseUrls == {None, Some(<<>>), Some(BaseUrl)}
DefaultHeaders == <<"h">> :> <<"0">> @@ <<"u">> :> <<"x">>

\* the arguments of run_tests
NameLists == {None, Some(<<>>), Some(<<"A", "B", "C">>)}
Overrides == {None, Some(EmptyMap),
              Some(<<"k">> :> StrVal(<<"9">>) @@ <<"j">> :> StrVal(<<"7">>))}

\* the servers: what the transport call does for a request
Servers == {"xml", "empty", "badrequest", "text", "timeout", "connect_timeout",
            "refused", "invalid", "crash", "routes"}
ServerHeaders == <<"t">> :> <<"x">>

Transport(srv, url) ==
    CASE srv = "xml" -> Response(200, ServerHeaders, BodyDoc)
      [] srv = "empty" -> Response(200, ServerHeaders, BodyEmpty)
      [] srv = "badrequest" -> Response(400, ServerHeaders, BodyDoc)
      [] srv = "text" -> Response(200, ServerHeaders, BodyText)
      [] srv = "timeout" -> Raises({"Timeout", "RequestException"}, <<"t">>)
      [] srv = "connect_timeout" ->
            Raises({"Timeout", "ConnectionError", "RequestException"}, <<"c">>)
      [] srv = "refused" -> Raises({"ConnectionError", "RequestException"}, <<"r">>)
      [] srv = "invalid" -> Raises({"RequestException"}, <<"i">>)
      [] srv = "crash" -> Raises({}, <<"x">>)
      [] srv = "routes" ->
            IF url \in {build_url(BaseUrl, <<"/", "a">>),
                        build_url(BaseUrl, <<"/", "p", "/", "1", "2">>)}
            THEN Response(200, ServerHeaders, BodyDoc)
            ELSE Response(404, ServerHeaders, BodyText)

(***************************************************************************)
(* TestRunner.run_tests, one test case.                                     *)
(***************************************************************************)
\* test_case.get('name', 'Unnamed Test')
NameOf(test_case) == IF test_case.name = None THEN "Unnamed Test" ELSE Get(test_case.name)

\* test_case.get('method', 'GET').upper()
Upper(m) == CASE m = "get" -> "GET" [] m = "post" -> "POST" [] OTHER -> m
MethodOf(test_case) == IF test_case.method = None THEN "GET" ELSE Upper(Get(test_case.method))

\* the selection gate: test_names_to_run and test_name not in test_names_to_run
NotSelected(test_case, names) ==
    /\ names # None
    /\ Get(names) # <<>>
    /\ \A n \in 1..Len(Get(names)) : Get(names)[n] # NameOf(test_case)

\* current_params after lines 77-79: the case's params dict (a new dict when
\* the case has none), updated with the overrides when there are any
current_params(test_case, overrides) ==
    LET own == IF test_case.params = None THEN EmptyMap ELSE Get(test_case.params)
    IN IF TruthyDict(overrides) THEN Overlay(own, Get(overrides)) ELSE own

\* the test case after lines 77-79: update() writes into the case's own dict
AfterMerge(test_case, overrides) ==
    IF test_case.params # None /\ TruthyDict(overrides)
    THEN [test_case EXCEPT !.params = Some(current_params(test_case, overrides))]
    ELSE test_case

\* the header mapping send_request sends: the defaults overlaid by the
\* test's headers, each value substituted
substituted_headers(test_case, params) ==
    LET headers == IF test_case.headers = None THEN EmptyMap ELSE Get(test_case.headers)
    IN [k \in DOMAIN headers |-> Get(substitute_variables(Some(headers[k]), params))]

\* the request of lines 81-91, as the transport gets it
Request(base_url, default_headers, test_case, overrides) ==
    LET params == current_params(test_case, overrides)
    IN [method |-> MethodOf(test_case),
        url |-> build_url(base_url, Get(substitute_variables(test_case.path, params))),
        headers |-> Overlay(default_headers, substituted_headers(test_case, params)),
        data |-> substitute_variables(test_case.body, params),
        params |-> params]

Quoted(t) == <<"'">> \o t \o <<"'">>
XPathFailed(xpath) == <<"XPath validation failed for ">> \o Quoted(xpath)
RegexFailed(regex) == <<"Regex validation failed for ">> \o Quoted(regex)
\* Joined, with the later reason put first
Joined_later_first(error_message, reason) ==
    IF TruthyText(error_message) THEN Some(reason \o <<"; ">> \o Get(error_message))
    ELSE Some(reason)

\* lines 135 and 145: error_message + "; " when there is one, then the reason
Joined(error_message, reason) ==
    IF TruthyText(error_message) THEN Some(Get(error_message) \o <<"; ">> \o reason)
    ELSE Some(reason)

Details(response, validation_results) ==
    [status_code |-> response.status_code, response_success |-> response.success,
     validation_results |-> validation_results]

Verdict(status, details, error_message) ==
    [raised |-> FALSE, status |-> status, details |-> details, error_message |-> error_message]
Raised == [raised |-> TRUE, status |-> "FAIL", details |-> EmptyMap, error_message |-> None]

\* line 115, second operand negated: no expected status, or the one returned
StatusOk(test_case, response) ==
    \/ ~TruthyInt(test_case.expected_status)
    \/ response.status_code = test_case.expected_status

\* ParseFailed, with the test of the content inverted
ParseFailed_of_empty_content(soup, content) == soup = None /\ content = <<>>

\* ParseFailed, whenever there is no tree
ParseFailed_whenever_no_tree(soup, content) == soup = None

\* line 122: not parser.soup and response['content']
ParseFailed(soup, content) == soup = None /\ content # <<>>

\* FinalStatus, with the validations' outcome left out
FinalStatus_without_validations(xml_validation_pass, test_case, response) ==
    IF response.success /\ StatusOk(test_case, response) THEN "PASS" ELSE "FAIL"

\* lines 150-154
FinalStatus(xml_validation_pass, test_case, response) ==
    IF xml_validation_pass /\ response.success /\ StatusOk(test_case, response)
    THEN "PASS" ELSE "FAIL"

\* lines 119-154: the response is parsed and the declared validations run
Validate(test_case, response, parser_raised) ==
    LET soup == XMLParser(response.content, parser_raised)
        xpath == test_case.validation_xpath
        regex == test_case.validation_regex
        xpath_result == validate_xpath_like(soup, Get(xpath))
        regex_result == validate_content_regex(soup, Get(regex))
        after_parse == "xml_parseable" :> TRUE
        after_xpath == IF TruthyText(xpath)
                       THEN after_parse @@ "xpath_validation" :> xpath_result
                       ELSE after_parse
        xpath_message == IF TruthyText(xpath) /\ ~xpath_result
                         THEN Joined(None, XPathFailed(Get(xpath))) ELSE None
        after_regex == IF TruthyText(regex)
                       THEN after_xpath @@ "regex_validation" :> regex_result.value
                       ELSE after_xpath
        regex_message == IF TruthyText(regex) /\ ~regex_result.value
                         THEN Joined(xpath_message, RegexFailed(Get(regex)))
                         ELSE xpath_message
        xml_validation_pass == /\ TruthyText(xpath) => xpath_result
                               /\ TruthyText(regex) => regex_result.value
    IN IF ParseFailed(soup, response.content)
       THEN Verdict(FinalStatus(FALSE, test_case, response),
                    Details(response, "xml_parseable" :> FALSE),
                    Some(<<"Could not parse XML response.">>))
       ELSE IF TruthyText(regex) /\ regex_result.raised THEN Raised
       ELSE Verdict(FinalStatus(xml_validation_pass, test_case, response),
                    Details(response, after_regex), regex_message)

\* TransportFailed, with the error looked up under a key the outcome lacks
TransportFailed_unknown_error(response) == <<"HTTP Request failed: ", "Unknown Error">>

\* line 113: f"HTTP Request failed: {response.get('error', 'Unknown Error')}"
TransportFailed(response) ==
    <<"HTTP Request failed: ">>
        \o (IF response.error = None THEN <<"Unknown Error">> ELSE Get(response.error))

\* line 116: f"Expected status {expected_status}, got {response['status_code']}"
StatusMismatch(test_case, response) ==
    <<"Expected status ">> \o Decimal(Get(test_case.expected_status))
        \o <<", got ">> \o Decimal(Get(response.status_code))

\* Evaluate, without the branch of the status check
Evaluate_without_status_branch(test_case, response, parser_raised) ==
    IF ~response.success
    THEN Verdict("FAIL", Details(response, EmptyMap), Some(TransportFailed(response)))
    ELSE Validate(test_case, response, parser_raised)

\* lines 103-154: the verdict on a response send_request returned
Evaluate(test_case, response, parser_raised) ==
    IF ~response.success
    THEN Verdict("FAIL", Details(response, EmptyMap), Some(TransportFailed(response)))
    ELSE IF ~StatusOk(test_case, response)
    THEN Verdict("FAIL", Details(response, EmptyMap),
                 Some(StatusMismatch(test_case, response)))
    ELSE Validate(test_case, response, parser_raised)

(***************************************************************************)
(* The state.                                                               *)
(***************************************************************************)
VARIABLES
    base_url,           \* endpoints.base_url of the configuration
    definitions,        \* the tests of the configuration as loaded
    tests_config,       \* TestRunner.tests_config: the same dicts, as they are now
    server,             \* the server the transport talks to
    parser_raised,      \* whether BeautifulSoup raises in this environment
    pc,                 \* where the program is: "new", "ready", "loop", "await",
                        \* "fatal" (the constructor raised), "raised" (run_tests raised)
    test_names_to_run,  \* the arguments of the run_tests call in progress
    override_params,
    i,                  \* the index of the test case the loop is at
    stats,              \* StatsCollector.stats
    sent,               \* the requests the transport was given, in order, each with
                        \* the run and the index of the case it was made for
    emitted,            \* what print_summary and generate_report put out, in order
    runs,               \* the run_tests calls made so far
    run_start,          \* len(test_results) when the call in progress began
    template,           \* _substitute_variables called on its own: its text,
    mapping,            \* its variables,
    substituted,        \* what it returned,
    resubstituted,      \* and what it returned when called on that once more
    xml_content,        \* the validators called on their own: the content parsed,
    xpath_like_expression,  \* the query and
    regex_pattern,      \* the pattern asked for,
    xpath_found,        \* what validate_xpath_like returned
    regex_found         \* and what validate_content_regex returned

vars == <<base_url, definitions, tests_config, server, parser_raised, pc,
          test_names_to_run, override_params, i, stats, sent, emitted, runs, run_start,
          template, mapping, substituted, resubstituted,
          xml_content, xpath_like_expression, regex_pattern, xpath_found, regex_found>>

\* the state of the runner but for pc, and the state of a substitution
runner == <<base_url, definitions, tests_config, server, parser_raised,
            test_names_to_run, override_params, i, stats, sent, emitted, runs, run_start>>
substitution == <<template, mapping, substituted, resubstituted>>
validation == <<xml_content, xpath_like_expression, regex_pattern, xpath_found, regex_found>>

environment == <<base_url, definitions, server, parser_raised>>
arguments == <<test_names_to_run, override_params>>

Init ==
    /\ base_url \in BaseUrls
    /\ definitions \in Configs
    /\ tests_config = definitions
    /\ server \in Servers
    /\ parser_raised \in BOOLEAN
    /\ pc = "new"
    /\ test_names_to_run = None
    /\ override_params = None
    /\ i = 0
    /\ stats = NewStats
    /\ sent = <<>>
    /\ emitted = <<>>
    /\ runs = 0
    /\ run_start = 0
    /\ template = None
    /\ mapping = EmptyMap
    /\ substituted = None
    /\ resubstituted = None
    /\ xml_content = <<>>
    /\ xpath_like_expression = <<>>
    /\ regex_pattern = <<>>
    /\ xpath_found = None
    /\ regex_found = None

\* Construct, with only an absent base URL refused
Construct_of_absent_only ==
    /\ pc = "new"
    /\ pc' = IF base_url # None THEN "ready" ELSE "fatal"
    /\ UNCHANGED <<environment, tests_config, arguments, i, stats, sent, emitted, runs,
                   run_start>>
    /\ UNCHANGED <<substitution, validation>>

\* TestRunner.__init__: without a base URL it raises ValueError, which main logs
Construct ==
    /\ pc = "new"
    /\ pc' = IF TruthyText(base_url) THEN "ready" ELSE "fatal"
    /\ UNCHANGED <<environment, tests_config, arguments, i, stats, sent, emitted, runs,
                   run_start>>
    /\ UNCHANGED <<substitution, validation>>

\* RunTests, with the collector emptied at each call
RunTests_resetting ==
    /\ pc = "ready"
    /\ runs < MaxRuns
    /\ \E names \in NameLists, overrides \in Overrides :
          /\ test_names_to_run' = names
          /\ override_params' = overrides
    /\ runs' = runs + 1
    /\ stats' = NewStats
    /\ run_start' = 0
    /\ i' = 1
    /\ pc' = IF tests_config = <<>> THEN "ready" ELSE "loop"
    /\ UNCHANGED <<environment, tests_config, sent, emitted>>
    /\ UNCHANGED <<substitution, validation>>

\* run_tests is called: lines 46-50 and the entry of the loop
RunTests ==
    /\ pc = "ready"
    /\ runs < MaxRuns
    /\ \E names \in NameLists, overrides \in Overrides :
          /\ test_names_to_run' = names
          /\ override_params' = overrides
    /\ runs' = runs + 1
    /\ run_start' = Len(stats.test_results)
    /\ i' = 1
    /\ pc' = IF tests_config = <<>> THEN "ready" ELSE "loop"
    /\ UNCHANGED <<environment, tests_config, stats, sent, emitted>>
    /\ UNCHANGED <<substitution, validation>>

\* Skip, without the call of record_test_result
Skip_unrecorded ==
    /\ pc = "loop"
    /\ i <= Len(tests_config)
    /\ NotSelected(tests_config[i], test_names_to_run)
    /\ i' = i + 1
    /\ UNCHANGED <<environment, tests_config, pc, arguments, stats, sent, emitted, runs,
                   run_start>>
    /\ UNCHANGED <<substitution, validation>>

\* lines 53-58: the case is not in the run list
Skip ==
    /\ pc = "loop"
    /\ i <= Len(tests_config)
    /\ NotSelected(tests_config[i], test_names_to_run)
    /\ stats' = record_test_result(stats, NameOf(tests_config[i]), "SKIP", EmptyMap,
                                   Some(<<"Test not in run list.">>))
    /\ i' = i + 1
    /\ UNCHANGED <<environment, tests_config, pc, arguments, sent, emitted, runs, run_start>>
    /\ UNCHANGED <<substitution, validation>>

\* MissingPath, with the path looked at before the run list
MissingPath_before_gate ==
    /\ pc = "loop"
    /\ i <= Len(tests_config)
    /\ ~TruthyText(tests_config[i].path)
    /\ stats' = record_test_result(stats, NameOf(tests_config[i]), "ERROR", EmptyMap,
                                   Some(<<"Missing 'path' in configuration.">>))
    /\ i' = i + 1
    /\ UNCHANGED <<environment, tests_config, pc, arguments, sent, emitted, runs, run_start>>
    /\ UNCHANGED <<substitution, validation>>

\* lines 60-74: the case has no path
MissingPath ==
    /\ pc = "loop"
    /\ i <= Len(tests_config)
    /\ ~NotSelected(tests_config[i], test_names_to_run)
    /\ ~TruthyText(tests_config[i].path)
    /\ stats' = record_test_result(stats, NameOf(tests_config[i]), "ERROR", EmptyMap,
                                   Some(<<"Missing 'path' in configuration.">>))
    /\ i' = i + 1
    /\ UNCHANGED <<environment, tests_config, pc, arguments, sent, emitted, runs, run_start>>
    /\ UNCHANGED <<substitution, validation>>

\* Dispatch, with the request handed to the transport twice
Dispatch_sent_twice ==
    /\ pc = "loop"
    /\ i <= Len(tests_config)
    /\ ~NotSelected(tests_config[i], test_names_to_run)
    /\ TruthyText(tests_config[i].path)
    /\ tests_config' = [tests_config EXCEPT ![i] = AfterMerge(@, override_params)]
    /\ LET made == [run |-> runs, index |-> i,
                    request |-> Request(Get(base_url), DefaultHeaders,
                                        tests_config[i], override_params)]
       IN sent' = Append(Append(sent, made), made)
    /\ pc' = "await"
    /\ UNCHANGED <<environment, arguments, i, stats, emitted, runs, run_start>>
    /\ UNCHANGED <<substitution, validation>>

\* lines 60-91: the parameters are merged, the templates resolved and the
\* request handed to the transport
Dispatch ==
    /\ pc = "loop"
    /\ i <= Len(tests_config)
    /\ ~NotSelected(tests_config[i], test_names_to_run)
    /\ TruthyText(tests_config[i].path)
    /\ tests_config' = [tests_config EXCEPT ![i] = AfterMerge(@, override_params)]
    /\ sent' = Append(sent, [run |-> runs, index |-> i,
                              request |-> Request(Get(base_url), DefaultHeaders,
                                                  tests_config[i], override_params)])
    /\ pc' = "await"
    /\ UNCHANGED <<environment, arguments, i, stats, emitted, runs, run_start>>
    /\ UNCHANGED <<substitution, validation>>

\* lines 91-163: the transport call ends, send_request returns or raises,
\* the response is judged and the result recorded
Complete ==
    /\ pc = "await"
    /\ LET response == send_request(Transport(server, sent[Len(sent)].request.url))
           verdict == Evaluate(tests_config[i], response, parser_raised)
       IN IF response.raised \/ verdict.raised
          THEN /\ pc' = "raised"
               /\ UNCHANGED <<stats, i>>
          ELSE /\ stats' = record_test_result(stats, NameOf(tests_config[i]), verdict.status,
                                              verdict.details, verdict.error_message)
               /\ i' = i + 1
               /\ pc' = "loop"
    /\ UNCHANGED <<environment, tests_config, arguments, sent, emitted, runs, run_start>>
    /\ UNCHANGED <<substitution, validation>>

\* Finish, with the loop left before its last case
Finish_before_last ==
    /\ pc = "loop"
    /\ i >= Len(tests_config)
    /\ emitted' = Append(emitted, [summary |-> get_summary(stats), report |-> stats])
    /\ pc' = "ready"
    /\ UNCHANGED <<environment, tests_config, arguments, i, stats, sent, runs, run_start>>
    /\ UNCHANGED <<substitution, validation>>

\* lines 166-168: the loop is over, the summary and the report are put out
Finish ==
    /\ pc = "loop"
    /\ i > Len(tests_config)
    /\ emitted' = Append(emitted, [summary |-> get_summary(stats), report |-> stats])
    /\ pc' = "ready"
    /\ UNCHANGED <<environment, tests_config, arguments, i, stats, sent, runs, run_start>>
    /\ UNCHANGED <<substitution, validation>>

Next == Construct \/ RunTests \/ Skip \/ MissingPath \/ Dispatch \/ Complete \/ Finish

Spec == Init /\ [][Next]_vars

(***************************************************************************)
(* _substitute_variables on its own: called on a template and a mapping,    *)
(* and once more on what it returned.                                       *)
(***************************************************************************)
\* what a template is made of: a character, or a placeholder
Pieces == {<<"{">>, <<"}">>, <<"k">>, <<"-">>, <<"{", "k", "}">>, <<"{", "j", "}">>}

RECURSIVE Flatten(_)
Flatten(s) == IF s = <<>> THEN <<>> ELSE Head(s) \o Flatten(Tail(s))

\* the texts of at most MaxPieces pieces, and None for a value that is not a str
Templates == {Flatten(s) : s \in UNION {[1..n -> Pieces] : n \in 0..MaxPieces}}
Texts == {None} \cup {Some(t) : t \in Templates}

\* the variables: none, a str, an int and a str that reads as a placeholder,
\* an empty str and a key of two characters
Mappings == {EmptyMap,
             <<"k">> :> StrVal(<<"9">>),
             <<"k">> :> IntVal(12) @@ <<"j">> :> StrVal(<<"{", "k", "}">>),
             <<"j">> :> StrVal(<<>>) @@ <<"k", "k">> :> StrVal(<<"-">>)}

SubstInit ==
    /\ base_url = None
    /\ definitions = <<>>
    /\ tests_config = <<>>
    /\ server = "xml"
    /\ parser_raised = FALSE
    /\ test_names_to_run = None
    /\ override_params = None
    /\ i = 0
    /\ stats = NewStats
    /\ sent = <<>>
    /\ emitted = <<>>
    /\ runs = 0
    /\ run_start = 0
    /\ pc = "template"
    /\ template \in Texts
    /\ mapping \in Mappings
    /\ substituted = None
    /\ resubstituted = None
    /\ xml_content = <<>>
    /\ xpath_like_expression = <<>>
    /\ regex_pattern = <<>>
    /\ xpath_found = None
    /\ regex_found = None

\* _substitute_variables(template, mapping)
Substitute ==
    /\ pc = "template"
    /\ substituted' = substitute_variables(template, mapping)
    /\ pc' = "substituted"
    /\ UNCHANGED <<runner, template, mapping, resubstituted, validation>>

\* _substitute_variables(substituted, mapping)
Resubstitute ==
    /\ pc = "substituted"
    /\ resubstituted' = substitute_variables(substituted, mapping)
    /\ pc' = "resubstituted"
    /\ UNCHANGED <<runner, template, mapping, substituted, validation>>

SubstNext == Substitute \/ Resubstitute

SubstSpec == SubstInit /\ [][SubstNext]_vars

(***************************************************************************)
(* The validators on their own: XMLParser(xml_content), then                *)
(* validate_xpath_like and validate_content_regex, each called once.        *)
(***************************************************************************)
Bodies == {BodyEmpty, BodyDoc, BodyText}

\* the queries: for each strategy some that it decides either way
Queries == {
    \* a tag that is there
    <<"b">>,
    \* a tag that is not
    <<"c">>,
    \* a child path that is there
    <<"a", "/", "b">>,
    \* a child path that is not, of tags that are
    <<"b", "/", "a">>,
    \* a descendant path
    <<"a", "/", "/", "b">>,
    \* a selector as it is
    <<"a", " ", "b">>,
    \* a path from the root: the selector starts with a combinator
    <<"/", "a">>,
    \* brackets without =: the attribute is there
    <<"a", "[", "i", "]">>,
    \* brackets without =: no such attribute, on a tag that is there
    <<"a", "[", "j", "]">>,
    <<"b", "[", "i", "]">>,
    <<"a", "/", "b", "[", "i", "]">>,
    \* empty brackets
    <<"a", "[", "]">>,
    \* an opening bracket alone
    <<"a", "[">>,
    <<"c", "[">>,
    <<"a", "/", "b", "[">>,
    \* a closing bracket alone
    <<"a", "]">>,
    \* filters
    <<"a", "[", "i", "=", "'", "1", "'", "]">>,
    <<"a", "[", "i", "=", "2", "]">>,
    <<"b", "[", "i", "=", "1", "]">>,
    <<"c", "[", "i", "=", "\"", "1", "\"", "]">> }

\* the patterns: two that do not compile, two that match the document only,
\* one that matches nothing and one that matches every text
Patterns == {<<"(">>, <<")", "(">>, <<"<", "b">>, <<"(", "b", ".", ")">>, <<"z">>, <<".">>}

ValidatorInit ==
    /\ base_url = None
    /\ definitions = <<>>
    /\ tests_config = <<>>
    /\ server = "xml"
    /\ parser_raised \in BOOLEAN
    /\ test_names_to_run = None
    /\ override_params = None
    /\ i = 0
    /\ stats = NewStats
    /\ sent = <<>>
    /\ emitted = <<>>
    /\ runs = 0
    /\ run_start = 0
    /\ pc = "validators"
    /\ template = None
    /\ mapping = EmptyMap
    /\ substituted = None
    /\ resubstituted = None
    /\ xml_content \in Bodies
    /\ xpath_like_expression \in Queries
    /\ regex_pattern \in Patterns
    /\ xpath_found = None
    /\ regex_found = None

unvalidated == <<base_url, definitions, tests_config, server, parser_raised, pc,
                 test_names_to_run, override_params, i, stats, sent, emitted, runs, run_start,
                 substitution, xml_content, xpath_like_expression, regex_pattern>>

\* XMLParser(xml_content).validate_xpath_like(xpath_like_expression)
ValidateXPath ==
    /\ pc = "validators"
    /\ xpath_found = None
    /\ xpath_found' = Some(validate_xpath_like(XMLParser(xml_content, parser_raised),
                                               xpath_like_expression))
    /\ UNCHANGED <<unvalidated, regex_found>>

\* XMLParser(xml_content).validate_content_regex(regex_pattern)
ValidateRegex ==
    /\ pc = "validators"
    /\ regex_found = None
    /\ regex_found' = Some(validate_content_regex(XMLParser(xml_content, parser_raised),
                                                  regex_pattern))
    /\ UNCHANGED <<unvalidated, xpath_found>>

ValidatorNext == ValidateXPath \/ ValidateRegex

ValidatorSpec == ValidatorInit /\ [][ValidatorNext]_vars

(***************************************************************************)
(* What the properties below speak of.                                      *)
(***************************************************************************)
Results == stats.test_results

\* the results the run_tests call in progress (or the last one) has appended
Handled == Len(Results) - run_start
ResultOf(j) == Results[run_start + j]

\* run_tests has returned normally from its last call
RunComplete == pc = "ready" /\ runs > 0

\* the request made for case j in this run, and what send_request returned for it
Requested(j) == \E n \in 1..Len(sent) : sent[n].run = runs /\ sent[n].index = j
RequestOf(j) == sent[CHOOSE n \in 1..Len(sent) : sent[n].run = runs /\ sent[n].index = j].request
ResponseOf(j) == send_request(Transport(server, RequestOf(j).url))

Count(status) == Cardinality({n \in 1..Len(Results) : Results[n].status = status})

(***************************************************************************)
(* C1.  When run_tests has completed over a non-empty definition sequence,  *)
(* the results appended during that run are exactly one per definition,     *)
(* skipped and error cases included, and the j-th of them carries the name  *)
(* of the j-th definition.                                                  *)
(***************************************************************************)
C1_OneResultPerDefinitionInOrder ==
    (RunComplete /\ definitions # <<>>) =>
        /\ Handled = Len(definitions)
        /\ \A j \in 1..Len(definitions) : ResultOf(j).test_name = NameOf(definitions[j])

\* a completed run over two definitions, the first an ERROR, the second a SKIP
C1_Witness ==
    /\ RunComplete
    /\ Len(definitions) = 2
    /\ Handled = 2
    /\ ResultOf(1).status = "ERROR"
    /\ ResultOf(2).status = "SKIP"

(***************************************************************************)
(* C4.  The counters agree with the result sequence: total_tests is its     *)
(* length and the sum of the three tallies, passed_tests counts the PASS    *)
(* entries, failed_tests the FAIL and ERROR entries, skipped_tests the      *)
(* SKIP entries.                                                            *)
(***************************************************************************)
C4_CountersAgreeWithResults ==
    /\ stats.total_tests = Len(Results)
    /\ stats.total_tests = stats.passed_tests + stats.failed_tests + stats.skipped_tests
    /\ stats.passed_tests = Count("PASS")
    /\ stats.failed_tests = Count("FAIL") + Count("ERROR")
    /\ stats.skipped_tests = Count("SKIP")

\* results of every status have been recorded
C4_Witness ==
    /\ Count("PASS") > 0
    /\ Count("FAIL") > 0
    /\ Count("SKIP") > 0
    /\ Count("ERROR") > 0

(***************************************************************************)
(* C2.  A case that passes the selection gate and has a path is recorded    *)
(* PASS exactly when its request succeeded, its expected status is not      *)
(* declared or is the status returned, the body is empty or parsed into a   *)
(* tree, and every declared validation evaluated true; else it is recorded  *)
(* FAIL.  (Declared is what the code tests: present and not empty or zero.) *)
(***************************************************************************)
NoPath(def) == def.path = None \/ def.path = Some(<<>>)
InRunList(name) ==
    \E n \in 1..Len(Get(test_names_to_run)) : Get(test_names_to_run)[n] = name
RunListGiven == test_names_to_run # None /\ Get(test_names_to_run) # <<>>
PassesGate(def) == RunListGiven => InRunList(NameOf(def))

PassConditions(def, response) ==
    LET soup == XMLParser(response.content, parser_raised)
    IN /\ response.success
       /\ \/ ~TruthyInt(def.expected_status)
          \/ response.status_code = def.expected_status
       /\ response.content = <<>> \/ soup # None
       /\ TruthyText(def.validation_xpath) =>
             validate_xpath_like(soup, Get(def.validation_xpath))
       /\ TruthyText(def.validation_regex) =>
             validate_content_regex(soup, Get(def.validation_regex)).value

C2_PassIffEveryCheckPassed ==
    \A j \in 1..Handled :
        (PassesGate(definitions[j]) /\ ~NoPath(definitions[j])) =>
            /\ Requested(j)
            /\ ResultOf(j).status = (IF PassConditions(definitions[j], ResponseOf(j))
                                     THEN "PASS" ELSE "FAIL")

\* one case recorded PASS with a structural query declared, and one recorded
\* FAIL although its request succeeded with the status expected and a parsed body
C2_Witness ==
    /\ \E j \in 1..Handled :
          /\ Requested(j)
          /\ ResultOf(j).status = "PASS"
          /\ "xpath_validation" \in DOMAIN ResultOf(j).details.validation_results
    /\ \E j \in 1..Handled :
          /\ Requested(j)
          /\ ResultOf(j).status = "FAIL"
          /\ ResponseOf(j).success
          /\ "regex_validation" \in DOMAIN ResultOf(j).details.validation_results

(***************************************************************************)
(* C3.  No failure while one test case is processed interrupts the          *)
(* iteration: whenever run_tests is not in its loop, the last run over a    *)
(* non-empty definition sequence has recorded every definition and every    *)
(* run has reached its summary.  Stated for the runs in which send_request  *)
(* returned an outcome for every request, so that what interrupts is a      *)
(* failure of the case's own validation.                                    *)
(***************************************************************************)
SendRequestRaised ==
    sent # <<>> /\ send_request(Transport(server, sent[Len(sent)].request.url)).raised

C3_NoFailureInterruptsTheRun ==
    (runs > 0 /\ definitions # <<>> /\ pc \notin {"loop", "await"} /\ ~SendRequestRaised) =>
        /\ Handled = Len(definitions)
        /\ Len(emitted) = runs

(***************************************************************************)
(* C5.  With a non-empty inclusion list, a case whose name is not in the    *)
(* list is recorded SKIP with the fixed message, whatever its path, and no  *)
(* request is made for it; a case whose name is in the list goes through    *)
(* the normal rules: ERROR without a path, else a request.                  *)
(***************************************************************************)
C5_InclusionListGate ==
    RunListGiven =>
        \A j \in 1..Handled :
            IF ~InRunList(NameOf(definitions[j]))
            THEN /\ ResultOf(j) = Result(NameOf(definitions[j]), "SKIP", EmptyMap,
                                         Some(<<"Test not in run list.">>))
                 /\ ~Requested(j)
            ELSE /\ ResultOf(j).status # "SKIP"
                 /\ ResultOf(j).status = "ERROR" <=> NoPath(definitions[j])
                 /\ Requested(j) <=> ~NoPath(definitions[j])

\* a listed case that was requested, then an unlisted case without a path
C5_Witness ==
    /\ RunListGiven
    /\ Handled = 2
    /\ Requested(1)
    /\ ResultOf(1).status \in {"PASS", "FAIL"}
    /\ NoPath(definitions[2])
    /\ ResultOf(2).status = "SKIP"

(***************************************************************************)
(* C6.  When the request succeeded and the status returned is not the       *)
(* expected status declared, the case is recorded FAIL, the error message   *)
(* names the expected and the returned status, and nothing was parsed or    *)
(* validated: the recorded validation results are empty, also when a body   *)
(* was returned.                                                            *)
(***************************************************************************)
MessageOf(j) == Get(ResultOf(j).error_message)
ValidationResultsOf(j) == ResultOf(j).details.validation_results

StatusDiffers(def, response) ==
    /\ response.success
    /\ TruthyInt(def.expected_status)
    /\ response.status_code # def.expected_status

C6_StatusMismatchFailsWithoutValidation ==
    \A j \in 1..Handled :
        (Requested(j) /\ StatusDiffers(definitions[j], ResponseOf(j))) =>
            /\ ResultOf(j).status = "FAIL"
            /\ ResultOf(j).error_message # None
            /\ Contains(MessageOf(j), <<"Expected status ">>
                                      \o Decimal(Get(definitions[j].expected_status)))
            /\ Contains(MessageOf(j), <<", got ">>
                                      \o Decimal(Get(ResponseOf(j).status_code)))
            /\ ValidationResultsOf(j) = EmptyMap

\* 200 expected, 400 returned with a body, and a structural query declared
C6_Witness ==
    \E j \in 1..Handled :
        /\ Requested(j)
        /\ StatusDiffers(definitions[j], ResponseOf(j))
        /\ ResponseOf(j).content # <<>>
        /\ TruthyText(definitions[j].validation_xpath)
        /\ ResultOf(j).status = "FAIL"

(***************************************************************************)
(* C7.  When the request outcome has success = false, the case is recorded  *)
(* FAIL, the error message contains the error classification of the         *)
(* outcome ("Timeout" for a timeout), the recorded status code is absent,   *)
(* and neither the status check nor any validation was made.                *)
(***************************************************************************)
C7_TransportFailureFailsWithClassification ==
    \A j \in 1..Handled :
        (Requested(j) /\ ~ResponseOf(j).success) =>
            /\ ResultOf(j).status = "FAIL"
            /\ ResultOf(j).error_message # None
            /\ Contains(MessageOf(j), Get(ResponseOf(j).error))
            /\ "Timeout" \in Transport(server, RequestOf(j).url).classes =>
                  Contains(MessageOf(j), <<"Timeout">>)
            /\ ~Contains(MessageOf(j), <<"Expected status ">>)
            /\ ResultOf(j).details.status_code = None
            /\ ValidationResultsOf(j) = EmptyMap

\* a timeout, for a case that declares an expected status and a structural query
C7_Witness ==
    \E j \in 1..Handled :
        /\ Requested(j)
        /\ "Timeout" \in Transport(server, RequestOf(j).url).classes
        /\ TruthyInt(definitions[j].expected_status)
        /\ TruthyText(definitions[j].validation_xpath)
        /\ ResultOf(j).status = "FAIL"

(***************************************************************************)
(* C8.  When the request succeeded, the status check passed or was not      *)
(* declared, the body is not empty and parsing gave no tree, the case is    *)
(* recorded FAIL with parseable = false and no structural or regex result,  *)
(* whether or not a validation was declared.                                *)
(***************************************************************************)
Unparsed(def, response) ==
    /\ response.success
    /\ ~StatusDiffers(def, response)
    /\ response.content # <<>>
    /\ XMLParser(response.content, parser_raised) = None

C8_ParseFailureFailsWithoutValidation ==
    \A j \in 1..Handled :
        (Requested(j) /\ Unparsed(definitions[j], ResponseOf(j))) =>
            /\ ResultOf(j).status = "FAIL"
            /\ DOMAIN ValidationResultsOf(j) = {"xml_parseable"}
            /\ ValidationResultsOf(j)["xml_parseable"] = FALSE

\* a body that did not parse, for a case with both validations declared and
\* for a case without a structural query
C8_Witness ==
    /\ \E j \in 1..Handled :
          /\ Requested(j)
          /\ Unparsed(definitions[j], ResponseOf(j))
          /\ TruthyText(definitions[j].validation_xpath)
          /\ TruthyText(definitions[j].validation_regex)
    /\ \E j \in 1..Handled :
          /\ Requested(j)
          /\ Unparsed(definitions[j], ResponseOf(j))
          /\ ~TruthyText(definitions[j].validation_xpath)

(***************************************************************************)
(* C9.  A case that passes the selection gate and has no path (absent or    *)
(* empty) is recorded ERROR with the missing-path message, no request is    *)
(* made for it, and the loop goes on to the next definition.                *)
(***************************************************************************)
C9_MissingPathIsAnErrorAndTheRunGoesOn ==
    \A j \in 1..Handled :
        (PassesGate(definitions[j]) /\ NoPath(definitions[j])) =>
            /\ ResultOf(j) = Result(NameOf(definitions[j]), "ERROR", EmptyMap,
                                    Some(<<"Missing 'path' in configuration.">>))
            /\ ~Requested(j)
            /\ i > j

\* a case without a path, then a case that was requested
C9_Witness ==
    /\ Handled = 2
    /\ PassesGate(definitions[1])
    /\ NoPath(definitions[1])
    /\ ResultOf(1).status = "ERROR"
    /\ Requested(2)

(***************************************************************************)
(* C10.  The mapping used to resolve the path, the body and the header      *)
(* values of a case is the case's default parameters overlaid by the        *)
(* overrides of the run: a key of both takes the override's value, a key    *)
(* of one keeps its value.                                                  *)
(***************************************************************************)
DefaultsOf(def) == IF def.params = None THEN EmptyMap ELSE Get(def.params)
OverridesOfRun == IF override_params = None THEN EmptyMap ELSE Get(override_params)
HeadersOf(def) == IF def.headers = None THEN EmptyMap ELSE Get(def.headers)

MergedFor(def) ==
    [k \in DOMAIN DefaultsOf(def) \cup DOMAIN OverridesOfRun |->
        IF k \in DOMAIN OverridesOfRun THEN OverridesOfRun[k] ELSE DefaultsOf(def)[k]]

C10_ParametersAreDefaultsOverlaidByOverrides ==
    \A n \in 1..Len(sent) :
        sent[n].run = runs =>
            LET def == definitions[sent[n].index]
                request == sent[n].request
            IN /\ request.params = MergedFor(def)
               /\ request.url = Get(base_url) \o ReSub(Get(def.path), 1, MergedFor(def))
               /\ request.data = IF def.body = None THEN None
                                 ELSE Some(ReSub(Get(def.body), 1, MergedFor(def)))
               /\ \A h \in DOMAIN HeadersOf(def) :
                     request.headers[h] = ReSub(HeadersOf(def)[h], 1, MergedFor(def))

(***************************************************************************)
(* C11.  run_tests leaves every test-case definition as the configuration   *)
(* gave it, its default parameter mapping included: what the runner holds   *)
(* is at all times what was loaded.                                         *)
(***************************************************************************)
C11_DefinitionsAreNeverChanged == tests_config = definitions

(***************************************************************************)
(* C12.  With a base URL configured, every call of run_tests that has       *)
(* returned has put out the summary and the report, also when the           *)
(* definition sequence is empty.                                            *)
(***************************************************************************)
C12_EveryRunEmitsSummaryAndReport ==
    (TruthyText(base_url) /\ RunComplete) => Len(emitted) = runs

(***************************************************************************)
(* C13.  Without a base URL (absent or empty) the construction of the       *)
(* runner fails: run_tests is never entered, no request is made and no      *)
(* result is recorded.                                                      *)
(***************************************************************************)
C13_NoBaseUrlIsFatalBeforeAnyTest ==
    ~TruthyText(base_url) =>
        /\ pc \in {"new", "fatal"}
        /\ runs = 0
        /\ sent = <<>>
        /\ Results = <<>>
        /\ stats = NewStats

\* the construction has failed on an empty base URL, with definitions configured
C13_Witness ==
    /\ pc = "fatal"
    /\ base_url = Some(<<>>)
    /\ definitions # <<>>

(***************************************************************************)
(* C14.  send_request never raises: whatever the transport call did for a   *)
(* request, send_request returned an outcome to run_tests.                  *)
(***************************************************************************)
C14_SendRequestNeverRaises ==
    \A n \in 1..Len(sent) :
        ~send_request(Transport(server, sent[n].request.url)).raised

(***************************************************************************)
(* C15.  A query that is a well-formed attribute filter tag[attr=value]     *)
(* (quotes around the value optional) evaluates, on a parsed body, to       *)
(* whether some element named tag has attribute attr equal to value; when   *)
(* no element matches the result is false, also when an element named tag   *)
(* exists, so neither the selector nor the bare-tag fallback decided.       *)
(***************************************************************************)
WellFormedFilter(q) ==
    /\ q # <<>>
    /\ q[Len(q)] = "]"
    /\ \E a, b \in 1..Len(q) :
          /\ a < b
          /\ q[a] = "["
          /\ q[b] = "="
          /\ \A m \in 1..(a - 1) : q[m] # "["

FilterOpen(q) == CHOOSE a \in 1..Len(q) : q[a] = "[" /\ \A m \in 1..(a - 1) : q[m] # "["
FilterEquals(q) ==
    CHOOSE b \in (FilterOpen(q) + 1)..Len(q) :
        q[b] = "=" /\ \A m \in (FilterOpen(q) + 1)..(b - 1) : q[m] # "="
FilterTag(q) == SubSeq(q, 1, FilterOpen(q) - 1)
FilterAttr(q) == SubSeq(q, FilterOpen(q) + 1, FilterEquals(q) - 1)
Unquoted(v) ==
    IF Len(v) >= 2 /\ v[1] \in {"'", "\""} /\ v[Len(v)] = v[1]
    THEN SubSeq(v, 2, Len(v) - 1) ELSE v
FilterValue(q) == Unquoted(SubSeq(q, FilterEquals(q) + 1, Len(q) - 1))

\* the elements of the parsed body of case j
TreeOf(j) == Get(XMLParser(ResponseOf(j).content, parser_raised))
Named(tree, tag) == {e \in 1..Len(tree) : tree[e].tag = tag}
FilterHolds(tree, q) ==
    \E e \in Named(tree, FilterTag(q)) :
        /\ FilterAttr(q) \in DOMAIN tree[e].attrs
        /\ tree[e].attrs[FilterAttr(q)] = FilterValue(q)

\* case j was validated against a parsed body with a well-formed filter
FilterEvaluated(j) ==
    /\ Requested(j)
    /\ "xpath_validation" \in DOMAIN ValidationResultsOf(j)
    /\ XMLParser(ResponseOf(j).content, parser_raised) # None
    /\ WellFormedFilter(Get(definitions[j].validation_xpath))

C15_AttributeFilterDecidesAlone ==
    \A j \in 1..Handled :
        FilterEvaluated(j) =>
            ValidationResultsOf(j)["xpath_validation"]
                = FilterHolds(TreeOf(j), Get(definitions[j].validation_xpath))

\* a filter that matched, and a filter that found nothing in a document that
\* has an element of the tag
C15_Witness ==
    /\ \E j \in 1..Handled :
          /\ FilterEvaluated(j)
          /\ ValidationResultsOf(j)["xpath_validation"]
    /\ \E j \in 1..Handled :
          /\ FilterEvaluated(j)
          /\ Named(TreeOf(j), FilterTag(Get(definitions[j].validation_xpath))) # {}
          /\ ~ValidationResultsOf(j)["xpath_validation"]

(***************************************************************************)
(* C18.  When the inclusion list given to run_tests is empty (the -t option *)
(* without names), no name is in it: every case is recorded SKIP and no     *)
(* request is made.                                                         *)
(***************************************************************************)
C18_EmptyInclusionListSkipsEveryCase ==
    test_names_to_run = Some(<<>>) =>
        /\ \A n \in 1..Len(sent) : sent[n].run # runs
        /\ \A j \in 1..Handled : ResultOf(j).status = "SKIP"

(***************************************************************************)
(* C19.  A transport failure is classified in priority order: an exception  *)
(* that is a timeout (a connect timeout, which is a connection failure      *)
(* too, included) gives the error "Timeout"; else a connection failure      *)
(* gives "ConnectionError"; else any other request exception gives its      *)
(* reason as text.  In each case the outcome has no status code, empty      *)
(* headers and success = false, and that is what the result records.        *)
(***************************************************************************)
\* what the transport call did for case j, when it raised a request exception
FailureOf(j) == Transport(server, RequestOf(j).url)
RequestFailed(j) ==
    /\ Requested(j)
    /\ FailureOf(j).kind = "exception"
    /\ "RequestException" \in FailureOf(j).classes

Classification(failure) ==
    CASE "Timeout" \in failure.classes -> <<"Timeout">>
      [] "Timeout" \notin failure.classes /\ "ConnectionError" \in failure.classes ->
            <<"ConnectionError">>
      [] OTHER -> failure.reason

C19_FailuresClassifiedInPriorityOrder ==
    \A j \in 1..Handled :
        RequestFailed(j) =>
            /\ ~ResponseOf(j).raised
            /\ ResponseOf(j).error = Some(Classification(FailureOf(j)))
            /\ ResponseOf(j).status_code = None
            /\ ResponseOf(j).headers = EmptyMap
            /\ ResponseOf(j).success = FALSE
            /\ ResultOf(j).details.status_code = None
            /\ ResultOf(j).details.response_success = FALSE
            /\ MessageOf(j) = <<"HTTP Request failed: ">> \o Classification(FailureOf(j))

\* a connect timeout (a timeout and a connection failure at once) was recorded
C19_Witness ==
    \E j \in 1..Handled :
        /\ RequestFailed(j)
        /\ {"Timeout", "ConnectionError"} \subseteq FailureOf(j).classes
        /\ ResultOf(j).status = "FAIL"

(***************************************************************************)
(* C20.  When the body was parsed or was empty and the case declares both   *)
(* a structural query and a pattern, both are evaluated and both results    *)
(* are recorded, also when the structural query has failed; when both       *)
(* failed, the error message is the structural reason, then "; ", then the  *)
(* reason of the pattern.                                                   *)
(***************************************************************************)
\* case j got as far as its validations, with both of them declared
BothDeclared(j) ==
    /\ Requested(j)
    /\ ResponseOf(j).success
    /\ ~StatusDiffers(definitions[j], ResponseOf(j))
    /\ ~Unparsed(definitions[j], ResponseOf(j))
    /\ TruthyText(definitions[j].validation_xpath)
    /\ TruthyText(definitions[j].validation_regex)

Spans(t) ==
    {sp \in (1..Len(t)) \X (1..Len(t)) :
        /\ sp[1] + 1 < sp[2]
        /\ t[sp[1]] = "{"
        /\ t[sp[2]] = "}"
        /\ \A m \in (sp[1] + 1)..(sp[2] - 1) : t[m] \in WordChars}

Substituted == pc \in {"substituted", "resubstituted"} /\ template # None

C16_IdentityWithoutPlaceholders ==
    (Substituted /\ Spans(Get(template)) = {}) =>
        /\ substituted = template
        /\ pc = "resubstituted" => resubstituted = substituted

\* a template with braces and an identifier of the mapping but no placeholder
\* has gone through twice
C16_Witness ==
    /\ pc = "resubstituted"
    /\ template # None
    /\ Spans(Get(template)) = {}
    /\ Contains(Get(template), <<"{">>)
    /\ Contains(Get(template), <<"}">>)
    /\ Contains(Get(template), <<"k">>)
    /\ <<"k">> \in DOMAIN mapping

(***************************************************************************)
(* C17.  In the result every placeholder whose identifier is not in the     *)
(* mapping stands as it was, braces included, every placeholder whose       *)
(* identifier is in the mapping has become the mapped value as text, and    *)
(* every other character is kept: each at the position it had, moved by     *)
(* what the replacements before it have added or taken.                     *)
(***************************************************************************)
KeyOf(t, sp) == SubSeq(t, sp[1] + 1, sp[2] - 1)

\* what stands for placeholder sp in the result
PieceFor(t, sp, m) ==
    IF KeyOf(t, sp) \in DOMAIN m THEN Str(m[KeyOf(t, sp)]) ELSE SubSeq(t, sp[1], sp[2])

\* by how much the placeholders of S make the text longer
RECURSIVE Growth(_, _, _)
Growth(t, S, m) ==
    IF S = {} THEN 0
    ELSE LET sp == CHOOSE x \in S : TRUE
         IN Len(PieceFor(t, sp, m)) - (sp[2] - sp[1] + 1) + Growth(t, S \ {sp}, m)

\* where position n of the template is in the result
PlaceOf(t, n, m) == n + Growth(t, {sp \in Spans(t) : sp[2] < n}, m)

InSpan(t, n) == \E sp \in Spans(t) : sp[1] <= n /\ n <= sp[2]

C17_AbsentKeptPresentReplaced ==
    Substituted =>
        LET t == Get(template)
            r == Get(substituted)
        IN /\ Len(r) = Len(t) + Growth(t, Spans(t), mapping)
           /\ \A sp \in Spans(t) :
                 SubSeq(r, PlaceOf(t, sp[1], mapping),
                        PlaceOf(t, sp[1], mapping) + Len(PieceFor(t, sp, mapping)) - 1)
                     = PieceFor(t, sp, mapping)
           /\ \A n \in 1..Len(t) : ~InSpan(t, n) => r[PlaceOf(t, n, mapping)] = t[n]

\* a placeholder of the mapping, replaced by a text of another length, and
\* after it a placeholder that is not in the mapping
C17_Witness ==
    /\ Substituted
    /\ \E sp \in Spans(Get(template)), later \in Spans(Get(template)) :
          /\ sp[2] < later[1]
          /\ KeyOf(Get(template), sp) \in DOMAIN mapping
          /\ KeyOf(Get(template), later) \notin DOMAIN mapping
          /\ PlaceOf(Get(template), later[1], mapping) # later[1]

(***************************************************************************)
(* C21.  Within one run, exactly one request is made for each case that     *)
(* passes the selection gate and has a path, and none for a case recorded   *)
(* SKIP or ERROR; so, between two cases and at the end of the run, the      *)
(* requests made in the run are as many as its PASS and FAIL results.       *)
(***************************************************************************)
RequestsFor(j) == {n \in 1..Len(sent) : sent[n].run = runs /\ sent[n].index = j}
RequestsOfRun == {n \in 1..Len(sent) : sent[n].run = runs}
JudgedOfRun == {j \in 1..Handled : ResultOf(j).status \in {"PASS", "FAIL"}}

C22_OneCaseAtATimeInOrder ==
    [][/\ Len(sent') > Len(sent) =>
             /\ sent'[Len(sent')].index = Handled + 1
             /\ sent'[Len(sent')].run = runs
             /\ Len(Results') = Len(Results)
       /\ Len(Results') > Len(Results) =>
             /\ Len(Results') = Len(Results) + 1
             /\ Results'[Len(Results')].test_name = NameOf(definitions[Handled + 1])
             /\ Results'[Len(Results')].status \in {"PASS", "FAIL"} => Requested(Handled + 1)
             /\ Len(sent') = Len(sent)
       /\ Len(emitted') > Len(emitted) =>
             /\ Handled = Len(definitions)
             /\ Results' = Results]_vars

\* two cases were requested one after the other and the summary is out
C22_Witness ==
    /\ RunComplete
    /\ Handled = 2
    /\ Requested(1)
    /\ Requested(2)
    /\ Len(emitted) = runs

(***************************************************************************)
(* C26.  When the request succeeded, the status check passed and the body   *)
(* is empty, there is no tree and yet parseable = true is recorded: a case  *)
(* that declares no validation is recorded PASS, and each validation a      *)
(* case declares evaluates false, so that the case is recorded FAIL.        *)
(***************************************************************************)
EmptyBody(j) ==
    /\ Requested(j)
    /\ ResponseOf(j).success
    /\ ~StatusDiffers(definitions[j], ResponseOf(j))
    /\ ResponseOf(j).content = <<>>

C26_EmptyBodyCountsAsParseable ==
    \A j \in 1..Handled :
        EmptyBody(j) =>
            LET xpath == TruthyText(definitions[j].validation_xpath)
                regex == TruthyText(definitions[j].validation_regex)
                recorded == ValidationResultsOf(j)
            IN /\ XMLParser(ResponseOf(j).content, parser_raised) = None
               /\ recorded["xml_parseable"] = TRUE
               /\ xpath <=> "xpath_validation" \in DOMAIN recorded
               /\ regex <=> "regex_validation" \in DOMAIN recorded
               /\ xpath => recorded["xpath_validation"] = FALSE
               /\ regex => recorded["regex_validation"] = FALSE
               /\ ResultOf(j).status = (IF xpath \/ regex THEN "FAIL" ELSE "PASS")

\* on empty bodies, a case with a structural query failed and a case without
\* validations passed
C26_Witness ==
    /\ \E j \in 1..Handled :
          /\ EmptyBody(j)
          /\ TruthyText(definitions[j].validation_xpath)
          /\ ResultOf(j).status = "FAIL"
    /\ \E j \in 1..Handled :
          /\ EmptyBody(j)
          /\ ~TruthyText(definitions[j].validation_xpath)
          /\ ~TruthyText(definitions[j].validation_regex)
          /\ ResultOf(j).status = "PASS"

(***************************************************************************)
(* C27.  run_tests never resets the collector: the results of a later run   *)
(* come after those of the earlier runs, which stay as they were, the       *)
(* counters go on counting, and the summary and the report a run puts out   *)
(* cover the results of all the runs so far, with counters that agree with  *)
(* them.                                                                    *)
(***************************************************************************)
\* the results there were when the k-th summary was put out
ResultsAt(k) == SubSeq(Results, 1, k * Len(definitions))
CountAt(k, statuses) ==
    Cardinality({n \in 1..Len(ResultsAt(k)) : ResultsAt(k)[n].status \in statuses})

C27_CollectorAccumulatesAcrossRuns ==
    /\ run_start <= Len(Results)
    /\ runs > 0 => run_start = (runs - 1) * Len(definitions)
    /\ \A k \in 1..Len(emitted) :
          /\ k * Len(definitions) <= Len(Results)
          /\ emitted[k].report.test_results = ResultsAt(k)
          /\ emitted[k].summary.total = k * Len(definitions)
          /\ emitted[k].summary.passed = CountAt(k, {"PASS"})
          /\ emitted[k].summary.failed = CountAt(k, {"FAIL", "ERROR"})
          /\ emitted[k].summary.skipped = CountAt(k, {"SKIP"})

\* the summary of a second run, over results of which the first run passed
\* some and the second run none
C27_Witness ==
    /\ Len(emitted) = 2
    /\ emitted[1].summary.passed > 0
    /\ emitted[2].summary.passed = emitted[1].summary.passed
    /\ emitted[2].summary.total = 2 * emitted[1].summary.total

(***************************************************************************)
(* C23.  When there is no document tree (the content was empty or the       *)
(* parser failed), validate_xpath_like returns false for every query and    *)
(* validate_content_regex returns false for every pattern; nothing is       *)
(* evaluated, so a pattern that does not compile raises nothing.            *)
(***************************************************************************)
NoTree == pc = "validators" /\ XMLParser(xml_content, parser_raised) = None

C23_NoTreeNoMatch ==
    NoTree =>
        /\ xpath_found # None => Get(xpath_found) = FALSE
        /\ regex_found # None => Get(regex_found) = [raised |-> FALSE, value |-> FALSE]

\* the parser failed on the document; a filter that the document matches and
\* a pattern that does not compile have both been asked for
C23_Witness ==
    /\ NoTree
    /\ xml_content = BodyDoc
    /\ xpath_found # None
    /\ regex_found # None
    /\ WellFormedFilter(xpath_like_expression)
    /\ FilterHolds(BeautifulSoup(BodyDoc), xpath_like_expression)
    /\ regex_pattern = <<"(">>

(***************************************************************************)
(* C24.  The strategies are tried in order.  A bracket expression without   *)
(* = is no attribute filter and goes to the path selector.  When the        *)
(* selector evaluates without raising, its result is the answer: false      *)
(* when it matches nothing, also when an element of the last tag name of    *)
(* the expression exists.  Only when the selector raises is the answer      *)
(* whether an element of that tag name exists.                              *)
(***************************************************************************)
BracketsWithoutEquals(q) ==
    Contains(q, <<"[">>) /\ Contains(q, <<"]">>) /\ ~Contains(q, <<"=">>)

\* the tree the query is put to, what the selector made of the query finds
\* in it, and the elements of the last tag name of the query
TreeAsked == Get(XMLParser(xml_content, parser_raised))
Selected == select(TreeAsked, CssSelector(xpath_like_expression))
OfLastTag == Named(TreeAsked, BareTag(xpath_like_expression))

\* validate_xpath_like has answered a query that is no attribute filter
SelectorAsked ==
    /\ pc = "validators"
    /\ XMLParser(xml_content, parser_raised) # None
    /\ xpath_found # None
    /\ ~WellFormedFilter(xpath_like_expression)

C24_StrategiesInOrder ==
    /\ BracketsWithoutEquals(xpath_like_expression) =>
          ~WellFormedFilter(xpath_like_expression)
    /\ SelectorAsked =>
          /\ ~Selected.raised => Get(xpath_found) = (Selected.found # {})
          /\ (~Selected.raised /\ Selected.found = {}) => Get(xpath_found) = FALSE
          /\ Selected.raised => Get(xpath_found) = (OfLastTag # {})

\* brackets without =: the selector evaluated and matched nothing, and the
\* answer is false although an element of the tag exists
C24_Witness ==
    /\ SelectorAsked
    /\ BracketsWithoutEquals(xpath_like_expression)
    /\ ~Selected.raised
    /\ Selected.found = {}
    /\ OfLastTag # {}
    /\ xpath_found = Some(FALSE)

(***************************************************************************)
(* C25.  Substitution is one pass from left to right: the result is the     *)
(* text between the placeholders, kept, with each placeholder in its turn   *)
(* replaced on its own; what a replacement puts in is not looked at again,  *)
(* so a mapped value that reads as a placeholder stands in the result as    *)
(* it is, also when its identifier is in the mapping.                       *)
(***************************************************************************)
\* the first placeholder of t at or after position n, when there is one
SpansFrom(t, n) == {sp \in Spans(t) : sp[1] >= n}
FirstSpanFrom(t, n) ==
    CHOOSE sp \in SpansFrom(t, n) : \A other \in SpansFrom(t, n) : sp[1] <= other[1]

RECURSIVE SinglePass(_, _, _)
SinglePass(t, n, m) ==
    IF SpansFrom(t, n) = {} THEN SubSeq(t, n, Len(t))
    ELSE LET sp == FirstSpanFrom(t, n)
         IN SubSeq(t, n, sp[1] - 1) \o PieceFor(t, sp, m) \o SinglePass(t, sp[2] + 1, m)

\* placeholder sp of t is replaced by a value that holds a placeholder of an
\* identifier of the mapping
PutsInPlaceholder(t, sp, m) ==
    /\ KeyOf(t, sp) \in DOMAIN m
    /\ \E in \in Spans(Str(m[KeyOf(t, sp)])) : KeyOf(Str(m[KeyOf(t, sp)]), in) \in DOMAIN m

C25_SinglePassNoRescan ==
    Substituted =>
        LET t == Get(template)
            r == Get(substituted)
        IN /\ r = SinglePass(t, 1, mapping)
           /\ \A sp \in Spans(t) :
                 PutsInPlaceholder(t, sp, mapping) =>
                     LET value == Str(mapping[KeyOf(t, sp)])
                         at == PlaceOf(t, sp[1], mapping)
                     IN SubSeq(r, at, at + Len(value) - 1) = value

\* a value that reads as a placeholder of the mapping was put in and stands
\* in the result; substituting the result once more changes it
C25_Witness ==
    /\ pc = "resubstituted"
    /\ template # None
    /\ \E sp \in Spans(Get(template)) : PutsInPlaceholder(Get(template), sp, mapping)
    /\ Contains(Get(substituted), <<"{", "k", "}">>)
    /\ resubstituted # substituted

=============================================================================
